---- MODULE Spec2Model ----
(***************************************************************************)
(* Stock ledger of the pharmacy dashboard.                                 *)
(*                                                                         *)
(* The store is the migration's schema: the tables produtos, vendas and    *)
(* compras, their CHECK / NOT NULL / FOREIGN KEY constraints and the two   *)
(* stock triggers.  The callers are the pages Vendas.tsx (sale terminals), *)
(* Compras (purchases) and Produtos (the admin's product form).            *)
(*                                                                         *)
(* Money is DECIMAL(10,2); it is modelled as an integer number of cents.   *)
(* Every INSERT / UPDATE runs as one READ COMMITTED transaction.  The      *)
(* BEFORE INSERT trigger of vendas first reads preco_compra with a plain   *)
(* SELECT (no lock) and then UPDATEs the product row (row lock, held to    *)
(* the end of the transaction): other transactions can commit between the  *)
(* two statements, and none can between the UPDATE and the commit.         *)
(***************************************************************************)
EXTENDS Integers, Sequences, FiniteSets, TLC

\* ---------------------------------------------------------------- bounds
MaxProd == 2
MaxCriados == 1
MaxQtd == 2
MaxPreco == 1
NumTerm == 2
MaxVendas == 2
MaxCompras == 1
Passado == 2
Horizonte == 31
MaxRelogio == 4

\* SQL NULL / JavaScript null, for a column or a field that may be empty.
NULL == -999

\* The ids a produtos row can have; the admin's form creates MaxCriados of them.
ProdIds == 1..MaxProd
\* Table fornecedores, and what the supplier field of a purchase can hold.
Fornecedores == {1}
FornecedorInputs == Fornecedores \cup {NULL}
Terms == 1..NumTerm
\* What an operator can type in a quantity or a price field.
QtdInputs == 0..MaxQtd
PrecoInputs == (-1)..MaxPreco
\* What a caller of the store's API sends as a row's quantity and unit price.
ApiQtd == {-1, 0, 1}
ApiPreco == {-1, 1}
\* The submissions that are tried: every valid one, and every one with a single
\* field at fault (two faults at once are refused like the first of them).
UmaFalha(faltas) == Cardinality({i \in DOMAIN faltas : faltas[i]}) <= 1
VendaInputs ==
    {d \in [q : QtdInputs, v : PrecoInputs] : UmaFalha(<<d.q < 1, d.v < 0>>)}
ApiVendaInputs ==
    {d \in [p : ProdIds \cup {NULL}, q : ApiQtd, v : ApiPreco] : UmaFalha(<<d.q < 1, d.v < 0>>)}
CompraInputs ==
    {d \in [p : ProdIds \cup {NULL}, f : FornecedorInputs, q : QtdInputs, c : PrecoInputs] :
        UmaFalha(<<d.p = NULL, d.f = NULL, d.q < 1, d.c < 0>>)}
ApiCompraInputs ==
    {d \in [p : ProdIds \cup {NULL}, f : Fornecedores, q : ApiQtd, c : ApiPreco] :
        UmaFalha(<<d.q < 1, d.c < 0>>)}
ProdutoInputs ==
    {d \in [e : ProdIds \cup {NULL}, q : QtdInputs, c : PrecoInputs] : d.c < 0 => d.q = 0}
\* The sale terminal of the full system; the terminals of Terms sell side by side
\* in SpecConc.
Balcao == {1}

VARIABLES
    produtos,      \* table produtos: id -> row
    criados,       \* how many product ids gen_random_uuid() has handed out
    vendas,        \* table vendas, in commit order
    compras,       \* table compras, in commit order
    numVendas,     \* how many vendas rows were ever committed (row ids)
    numCompras,    \* how many compras rows were ever committed (row ids)
    cache,         \* Vendas page, per terminal: the produtos state (id -> quantidade, 0 = not listed)
    formProduto,   \* Vendas page, per terminal: formData.produto_id (NULL = '')
    pc,            \* per terminal: where its insert is
    req,           \* per terminal: the row sent with the insert
    precoLido,     \* per terminal: the trigger's local preco_compra_produto
    res,           \* per terminal: the outcome of the last submission
    recarregar,    \* per terminal: a loadProdutos() request is pending
    resCompra,     \* Compras page: the outcome of the last submission
    ficha,         \* table produtos, the reference columns: id -> preco_venda, quantidade_minima, validade
    hoje,          \* the instant of new Date() / CURRENT_DATE, in half days
    statusAlerta,  \* produtos_com_alertas.status_alerta as last selected, per product
    badge,         \* Produtos page: what getStatusBadge last rendered, per product
    relogio,       \* the store's clock
    inicio,        \* per terminal: NOW() of its insert's transaction
    diario,        \* the quantity changes of the ledger in the order they were applied
    sessao,        \* per terminal: auth.uid() of the user signed in there
    pedido,        \* per terminal: the user_id and lucro sent with the last insert
    autores,       \* who was signed in when each row was inserted (no column of the store)
    dialogOpen,    \* per page: the form's dialog is open
    loading,       \* per page: the loading flag
    toasts,        \* per page: the toasts shown since the last submission began
    cancelou,      \* per page: Cancelar was clicked since the last submission began
    topVendas,     \* Dashboard: the vendas rows of the month as its query returned them
    topProdutos,   \* Dashboard: the topProdutos state
    editingProduto, \* Produtos page: the product being edited (NULL = none)
    formData,      \* Produtos page: the form's quantidade and preco_compra (NULL = '')
    formAberto,    \* Produtos page: dialogOpen
    viaNovo,       \* Produtos page: the dialog was last opened with Novo Produto
    perfis,        \* table profiles: user -> role ("nenhum" = no row)
    promovidos     \* the users whose role was set to admin by the owner of the store

vars == <<produtos, criados, vendas, compras, numVendas, numCompras, cache,
          formProduto, pc, req, precoLido, res, recarregar, resCompra,
          ficha, hoje, statusAlerta, badge, relogio, inicio, diario,
          sessao, pedido, autores, dialogOpen, loading, toasts, cancelou,
          topVendas, topProdutos, editingProduto, formData, formAberto, viaNovo,
          perfis, promovidos>>

db == <<produtos, criados, vendas, compras, numVendas, numCompras>>
terminais == <<cache, formProduto, pc, req, precoLido, res, recarregar>>
alertas == <<ficha, hoje, statusAlerta, badge>>
tempo == <<relogio, inicio, diario>>
api == <<sessao, pedido, autores>>
tela == <<dialogOpen, loading, toasts, cancelou>>
painel == <<topVendas, topProdutos>>
formulario == <<editingProduto, formData, formAberto, viaNovo>>
papeis == <<perfis, promovidos>>

\* The variables of the later sections, which the pages above leave alone.
demais == <<api, tela, painel, formulario, papeis>>

\* ---------------------------------------------------------------- store
\* A product id that holds no row (never created, or deleted).
SemLinha == [existe |-> FALSE, quantidade |-> 0, preco_compra |-> 0]
SemReq == [produto_id |-> NULL, quantidade |-> 0, preco_unitario |-> 0, ui |-> FALSE]

Existe(p) == p \in ProdIds /\ produtos[p].existe

\* The table without its CHECK on quantidade.
ProdutosQuantidadeCheckAusente(q) == TRUE

\* produtos: CHECK (quantidade >= 0)
ProdutosQuantidadeCheck(q) == q >= 0

\* produtos: CHECK (preco_compra >= 0)
ProdutosPrecoCheck(c) == c >= 0


\* vendas / compras: CHECK (quantidade > 0)
QuantidadeCheck(q) == q > 0

\* vendas / compras: CHECK (preco_unitario >= 0)
PrecoUnitarioCheck(v) == v >= 0

\* produto_id REFERENCES produtos(id): a NULL reference passes.
ProdutoFk(p) == p = NULL \/ Existe(p)

\* The generated column copying the unit price.
TotalSemQuantidade(q, v) == v

\* total GENERATED ALWAYS AS (quantidade * preco_unitario)
Total(q, v) == q * v

\* NEW.lucro := (NEW.preco_unitario - preco_compra_produto) * NEW.quantidade
Lucro(v, custo, q) == IF custo = NULL THEN NULL ELSE (v - custo) * q

\* ON DELETE CASCADE: the rows of a table that do not reference product p.
SemProduto(tabela, p) == SelectSeq(tabela, LAMBDA e : e.produto_id # p)

RECURSIVE SomaQtd(_)
SomaQtd(tabela) ==
    IF tabela = <<>> THEN 0
    ELSE Head(tabela).quantidade + SomaQtd(Tail(tabela))

DoProduto(tabela, p) == SelectSeq(tabela, LAMBDA e : e.produto_id = p)

\* ---------------------------------------------------------------- Vendas page
\* zod: vendaSchema / compraSchema
vendaSchema(p, q, v) == p # NULL /\ q >= 1 /\ v >= 0

\* The stock check written with <= for <.
EstoqueInsuficienteEstrito(t, p, q) == cache[t][p] = 0 \/ cache[t][p] <= q

\* Verificar estoque: !produto || produto.quantidade < data.quantidade
EstoqueInsuficiente(t, p, q) == cache[t][p] = 0 \/ cache[t][p] < q

\* useEffect(() => { loadProdutos(); ... }, []): the page is (re)mounted.
Mount(t) ==
    /\ pc[t] = "ocioso"
    /\ formProduto' = [formProduto EXCEPT ![t] = NULL]
    /\ recarregar' = [recarregar EXCEPT ![t] = TRUE]
    /\ UNCHANGED <<db, cache, pc, req, precoLido, res, resCompra>>

\* loadProdutos: select * from produtos where quantidade > 0
loadProdutos(t) ==
    /\ recarregar[t]
    /\ cache' = [cache EXCEPT ![t] =
                    [p \in ProdIds |-> IF produtos[p].existe THEN produtos[p].quantidade ELSE 0]]
    /\ recarregar' = [recarregar EXCEPT ![t] = FALSE]
    /\ UNCHANGED <<db, formProduto, pc, req, precoLido, res, resCompra>>

\* handleProdutoChange: the operator picks a listed product.
handleProdutoChange(t, p) ==
    /\ pc[t] = "ocioso"
    /\ cache[t][p] > 0
    /\ formProduto[t] # p
    /\ formProduto' = [formProduto EXCEPT ![t] = p]
    /\ UNCHANGED <<db, cache, pc, req, precoLido, res, recarregar, resCompra>>

\* atualizar_estoque_venda, first statement:
\* SELECT preco_compra INTO preco_compra_produto FROM produtos WHERE id = NEW.produto_id
PrecoCompraProduto(p) == IF Existe(p) THEN produtos[p].preco_compra ELSE NULL

\* supabase.from('vendas').insert([data]): the insert's transaction starts and its
\* BEFORE INSERT trigger runs its SELECT.  (The request's travel is no step of its
\* own.)
Enviar(t, p, q, v, ui) ==
    /\ pc' = [pc EXCEPT ![t] = "transacao"]
    /\ req' = [req EXCEPT ![t] =
                  [produto_id |-> p, quantidade |-> q, preco_unitario |-> v, ui |-> ui]]
    /\ precoLido' = [precoLido EXCEPT ![t] = PrecoCompraProduto(p)]
    /\ res' = [res EXCEPT ![t] = "nenhum"]

\* The model's bound on the vendas rows: the committed ones and those on their way.
CabeVenda == numVendas + Cardinality({u \in Terms : pc[u] # "ocioso"}) < MaxVendas

\* handleSubmit up to the await: validation, the stock check, the insert sent.
handleSubmit(t, q, v) ==
    /\ pc[t] = "ocioso"
    /\ LET p == formProduto[t] IN
        IF ~vendaSchema(p, q, v)
        THEN /\ res' = [res EXCEPT ![t] = "invalido"]
             /\ UNCHANGED <<pc, req, precoLido>>
        ELSE IF EstoqueInsuficiente(t, p, q)
        THEN /\ res' = [res EXCEPT ![t] = "estoque_insuficiente"]
             /\ UNCHANGED <<pc, req, precoLido>>
        ELSE /\ CabeVenda
             /\ Enviar(t, p, q, v, TRUE)
    /\ UNCHANGED <<db, cache, formProduto, recarregar, resCompra>>

\* An insert into vendas sent straight to the store's API, with no page in between.
ApiInsertVenda(t, p, q, v) ==
    /\ pc[t] = "ocioso"
    /\ p = NULL \/ p \in 1..criados
    /\ CabeVenda
    /\ Enviar(t, p, q, v, FALSE)
    /\ UNCHANGED <<db, cache, formProduto, recarregar, resCompra>>

\* The trigger without its decrement.
NovaQuantidadeVendaSemBaixa(atual, q) == atual

\* The quantity the trigger's UPDATE writes: quantidade - NEW.quantidade
NovaQuantidadeVenda(atual, q) == atual - q

\* The transaction with the trigger's UPDATE escaping the CHECK of produtos.
VendaErroSemEstoque(r) ==
    IF ~QuantidadeCheck(r.quantidade) \/ ~PrecoUnitarioCheck(r.preco_unitario)
    THEN "erro_check"
    ELSE IF ~ProdutoFk(r.produto_id)
    THEN "erro_fk"
    ELSE "sucesso"

\* The outcome of the rest of the insert's transaction: the trigger's UPDATE (and
\* the CHECK of produtos), then the row's own constraints, then its foreign key.
VendaErro(r) ==
    IF Existe(r.produto_id) /\
       ~ProdutosQuantidadeCheck(NovaQuantidadeVenda(produtos[r.produto_id].quantidade, r.quantidade))
    THEN "erro_estoque"
    ELSE IF ~QuantidadeCheck(r.quantidade) \/ ~PrecoUnitarioCheck(r.preco_unitario)
    THEN "erro_check"
    ELSE IF ~ProdutoFk(r.produto_id)
    THEN "erro_fk"
    ELSE "sucesso"

\* The vendas row the transaction inserts.
VendaLinha(r, custo) ==
    [id |-> numVendas + 1,
     produto_id |-> r.produto_id,
     quantidade |-> r.quantidade,
     preco_unitario |-> r.preco_unitario,
     total |-> Total(r.quantidade, r.preco_unitario),
     lucro |-> Lucro(r.preco_unitario, custo, r.quantidade)]

\* The trigger's UPDATE kept when the insert of the row fails afterwards.
VendaCommitSemRollback(t) ==
    /\ pc[t] = "transacao"
    /\ LET r == req[t]
           fim == VendaErro(r)
       IN
        /\ IF fim = "sucesso"
           THEN /\ vendas' = Append(vendas, VendaLinha(r, precoLido[t]))
                /\ numVendas' = numVendas + 1
           ELSE UNCHANGED <<vendas, numVendas>>
        /\ produtos' =
               IF Existe(r.produto_id) /\ fim # "erro_estoque"
               THEN [produtos EXCEPT ![r.produto_id].quantidade =
                        NovaQuantidadeVenda(@, r.quantidade)]
               ELSE produtos
        /\ res' = [res EXCEPT ![t] = fim]
        /\ IF fim = "sucesso" /\ r.ui
           THEN /\ formProduto' = [formProduto EXCEPT ![t] = NULL]
                /\ recarregar' = [recarregar EXCEPT ![t] = TRUE]
           ELSE UNCHANGED <<formProduto, recarregar>>
    /\ pc' = [pc EXCEPT ![t] = "ocioso"]
    /\ req' = [req EXCEPT ![t] = SemReq]
    /\ precoLido' = [precoLido EXCEPT ![t] = NULL]
    /\ UNCHANGED <<criados, compras, numCompras, cache, resCompra>>

\* The insert treated as a replay when a row with the same product, quantity and unit
\* price is already in the table: acknowledged, nothing written.
VendaCommitDedup(t) ==
    /\ pc[t] = "transacao"
    /\ LET r == req[t]
           fim == VendaErro(r)
           repetida == \E i \in 1..Len(vendas) :
                          /\ vendas[i].produto_id = r.produto_id
                          /\ vendas[i].quantidade = r.quantidade
                          /\ vendas[i].preco_unitario = r.preco_unitario
       IN
        /\ IF fim = "sucesso" /\ ~repetida
           THEN /\ vendas' = Append(vendas, VendaLinha(r, precoLido[t]))
                /\ numVendas' = numVendas + 1
                /\ produtos' =
                       IF r.produto_id = NULL THEN produtos
                       ELSE [produtos EXCEPT ![r.produto_id].quantidade =
                                NovaQuantidadeVenda(@, r.quantidade)]
           ELSE UNCHANGED <<produtos, vendas, numVendas>>
        /\ res' = [res EXCEPT ![t] = fim]
        /\ IF fim = "sucesso" /\ r.ui
           THEN /\ formProduto' = [formProduto EXCEPT ![t] = NULL]
                /\ recarregar' = [recarregar EXCEPT ![t] = TRUE]
           ELSE UNCHANGED <<formProduto, recarregar>>
    /\ pc' = [pc EXCEPT ![t] = "ocioso"]
    /\ req' = [req EXCEPT ![t] = SemReq]
    /\ precoLido' = [precoLido EXCEPT ![t] = NULL]
    /\ UNCHANGED <<criados, compras, numCompras, cache, resCompra>>

\* atualizar_estoque_venda from its UPDATE on, the insert of the row, the commit
\* or the rollback, and handleSubmit after the await.
VendaCommit(t) ==
    /\ pc[t] = "transacao"
    /\ LET r == req[t]
           fim == VendaErro(r)
       IN
        /\ IF fim = "sucesso"
           THEN /\ vendas' = Append(vendas, VendaLinha(r, precoLido[t]))
                /\ numVendas' = numVendas + 1
                /\ produtos' =
                       IF r.produto_id = NULL THEN produtos
                       ELSE [produtos EXCEPT ![r.produto_id].quantidade =
                                NovaQuantidadeVenda(@, r.quantidade)]
           ELSE UNCHANGED <<produtos, vendas, numVendas>>
        /\ res' = [res EXCEPT ![t] = fim]
        /\ IF fim = "sucesso" /\ r.ui
           THEN /\ formProduto' = [formProduto EXCEPT ![t] = NULL]
                /\ recarregar' = [recarregar EXCEPT ![t] = TRUE]
           ELSE UNCHANGED <<formProduto, recarregar>>
    /\ pc' = [pc EXCEPT ![t] = "ocioso"]
    /\ req' = [req EXCEPT ![t] = SemReq]
    /\ precoLido' = [precoLido EXCEPT ![t] = NULL]
    /\ UNCHANGED <<criados, compras, numCompras, cache, resCompra>>

\* ---------------------------------------------------------------- Compras page
\* zod: compraSchema.  fornecedor_id is z.string().uuid().optional(), which admits
\* undefined and not null, and handleSubmit sends formData.fornecedor_id || null.
compraSchema(p, f, q, c) == p # NULL /\ f # NULL /\ q >= 1 /\ c >= 0

\* fornecedor_id REFERENCES fornecedores(id): a NULL reference passes.
FornecedorFk(f) == f = NULL \/ f \in Fornecedores

\* The quantity the purchase trigger's UPDATE writes: quantidade + NEW.quantidade
NovaQuantidadeCompra(atual, q) == atual + q

\* The outcome of the insert's transaction: the row's own constraints, then the
\* AFTER INSERT trigger's UPDATE (and the CHECK of produtos), then the foreign key.
CompraErro(p, f, q, c) ==
    IF ~QuantidadeCheck(q) \/ ~PrecoUnitarioCheck(c)
    THEN "erro_check"
    ELSE IF Existe(p) /\ ~ProdutosQuantidadeCheck(NovaQuantidadeCompra(produtos[p].quantidade, q))
    THEN "erro_estoque"
    ELSE IF ~ProdutoFk(p) \/ ~FornecedorFk(f)
    THEN "erro_fk"
    ELSE "sucesso"

\* The compras row the transaction inserts.
CompraLinha(p, f, q, c) ==
    [id |-> numCompras + 1,
     produto_id |-> p,
     fornecedor_id |-> f,
     quantidade |-> q,
     preco_unitario |-> c,
     total |-> Total(q, c)]

\* The purchase trigger also taking the purchase's unit cost as the product's cost.
CompraTransacaoAtualizaCusto(p, f, q, c) ==
    LET fim == CompraErro(p, f, q, c) IN
    /\ numCompras < MaxCompras
    /\ Existe(p) => NovaQuantidadeCompra(produtos[p].quantidade, q) <= MaxQtd
    /\ IF fim = "sucesso"
       THEN /\ compras' = Append(compras, CompraLinha(p, f, q, c))
            /\ numCompras' = numCompras + 1
            /\ produtos' =
                   IF p = NULL THEN produtos
                   ELSE [produtos EXCEPT ![p].quantidade = NovaQuantidadeCompra(@, q),
                                         ![p].preco_compra = c]
       ELSE UNCHANGED <<produtos, compras, numCompras>>
    /\ resCompra' = fim
    /\ UNCHANGED <<criados, vendas, numVendas, terminais>>

\* insert into compras, with atualizar_estoque_compra (AFTER INSERT), as one transaction.
CompraTransacao(p, f, q, c) ==
    LET fim == CompraErro(p, f, q, c) IN
    /\ numCompras < MaxCompras
    /\ Existe(p) => NovaQuantidadeCompra(produtos[p].quantidade, q) <= MaxQtd
    /\ IF fim = "sucesso"
       THEN /\ compras' = Append(compras, CompraLinha(p, f, q, c))
            /\ numCompras' = numCompras + 1
            /\ produtos' =
                   IF p = NULL THEN produtos
                   ELSE [produtos EXCEPT ![p].quantidade = NovaQuantidadeCompra(@, q)]
       ELSE UNCHANGED <<produtos, compras, numCompras>>
    /\ resCompra' = fim
    /\ UNCHANGED <<criados, vendas, numVendas, terminais>>

\* Compras.handleSubmit: validation, the insert, the toast.
ComprasHandleSubmit(p, f, q, c) ==
    /\ p = NULL \/ p \in 1..criados
    /\ IF ~compraSchema(p, f, q, c)
       THEN /\ resCompra' = "invalido"
            /\ UNCHANGED <<db, terminais>>
       ELSE CompraTransacao(p, f, q, c)

\* An insert into compras sent straight to the store's API.
ApiInsertCompra(p, f, q, c) ==
    /\ p = NULL \/ p \in 1..criados
    /\ CompraTransacao(p, f, q, c)

\* ---------------------------------------------------------------- Produtos page
\* zod: produtoSchema (the fields of the ledger)
produtoSchema(q, c) == q >= 0 /\ c >= 0

\* The update of a product recomputing the profit of the product's sales.
ProdutosHandleSubmitRecalcula(editing, q, c) ==
    /\ editing = NULL \/ editing \in 1..criados
    /\ IF ~produtoSchema(q, c)
       THEN UNCHANGED <<produtos, criados, vendas>>
       ELSE IF editing # NULL
       THEN /\ produtos' =
                   IF produtos[editing].existe
                   THEN [produtos EXCEPT ![editing].quantidade = q,
                                         ![editing].preco_compra = c]
                   ELSE produtos
            /\ vendas' =
                   [i \in 1..Len(vendas) |->
                       IF vendas[i].produto_id = editing
                       THEN [vendas[i] EXCEPT !.lucro =
                                Lucro(vendas[i].preco_unitario, c, vendas[i].quantidade)]
                       ELSE vendas[i]]
            /\ UNCHANGED criados
       ELSE /\ criados < MaxCriados
            /\ criados' = criados + 1
            /\ produtos' = [produtos EXCEPT ![criados + 1] =
                               [existe |-> TRUE, quantidade |-> q, preco_compra |-> c]]
            /\ UNCHANGED vendas
    /\ UNCHANGED <<compras, numVendas, numCompras, terminais, resCompra>>

\* Produtos.handleSubmit by an admin: the form's fields are written as they stand,
\* quantidade included; with editingProduto set it is an update, else an insert.
ProdutosHandleSubmit(editing, q, c) ==
    /\ editing = NULL \/ editing \in 1..criados
    /\ IF ~produtoSchema(q, c)
       THEN UNCHANGED <<produtos, criados>>
       ELSE IF editing # NULL
       THEN /\ produtos' =
                   IF produtos[editing].existe
                   THEN [produtos EXCEPT ![editing].quantidade = q,
                                         ![editing].preco_compra = c]
                   ELSE produtos
            /\ UNCHANGED criados
       ELSE /\ criados < MaxCriados
            /\ criados' = criados + 1
            /\ produtos' = [produtos EXCEPT ![criados + 1] =
                               [existe |-> TRUE, quantidade |-> q, preco_compra |-> c]]
    /\ UNCHANGED <<vendas, compras, numVendas, numCompras, terminais, resCompra>>

\* Produtos.handleDelete by an admin: delete from produtos, ON DELETE CASCADE.
ProdutosHandleDelete(p) ==
    /\ p \in 1..criados
    /\ produtos[p].existe
    /\ produtos' = [produtos EXCEPT ![p] = SemLinha]
    /\ vendas' = SemProduto(vendas, p)
    /\ compras' = SemProduto(compras, p)
    /\ UNCHANGED <<criados, numVendas, numCompras, terminais, resCompra>>

\* ---------------------------------------------------------------- the system
\* The reference columns of a product id with no row, or not looked at.
SemFicha == [preco_venda |-> 0, quantidade_minima |-> 0, validade |-> 0]

\* Nobody has looked at the alerts.
SemAlertas ==
    /\ ficha = [p \in ProdIds |-> SemFicha]
    /\ hoje = 0
    /\ statusAlerta = [p \in ProdIds |-> "nenhum"]
    /\ badge = [p \in ProdIds |-> "nenhum"]

\* Nobody reads the timestamps of the events.
SemTempo ==
    /\ relogio = 0
    /\ inicio = [t \in Terms |-> NULL]
    /\ diario = <<>>

\* The Compras page, next to the Vendas pages of the terminals.
PaginaCompras == 0
Paginas == Terms \cup {PaginaCompras}

\* No toast on the screen.
SemToasts == [sucesso |-> 0, erro |-> 0]

\* profiles.id of the users: the user signed in at terminal t is user t.
Usuarios == Terms

\* resetForm's formData
FormEmBranco == [quantidade |-> NULL, preco_compra |-> NULL]

\* The request's user_id and lucro when no insert is in progress.
SemPedido == [user_id |-> NULL, lucro |-> NULL]

\* Terminal t is signed in as user t, whose id the pages send as user_id; the pages'
\* dialogs are closed and their forms blank.
SemOutros ==
    /\ sessao = [t \in Terms |-> t]
    /\ pedido = [t \in Terms |-> SemPedido]
    /\ autores = <<>>
    /\ dialogOpen = [g \in Paginas |-> FALSE]
    /\ loading = [g \in Paginas |-> FALSE]
    /\ toasts = [g \in Paginas |-> SemToasts]
    /\ cancelou = [g \in Paginas |-> FALSE]
    /\ topVendas = <<>>
    /\ topProdutos = <<>>
    /\ editingProduto = NULL
    /\ formData = FormEmBranco
    /\ formAberto = FALSE
    /\ viaNovo = FALSE

\* The users of the terminals have signed up as sellers.
SemPapeis ==
    /\ perfis = [u \in Usuarios |-> "vendedor"]
    /\ promovidos = {}

SemDemais == SemOutros /\ SemPapeis

Init ==
    /\ produtos = [p \in ProdIds |-> SemLinha]
    /\ criados = 0
    /\ vendas = <<>>
    /\ compras = <<>>
    /\ numVendas = 0
    /\ numCompras = 0
    /\ cache = [t \in Terms |-> [p \in ProdIds |-> 0]]
    /\ formProduto = [t \in Terms |-> NULL]
    /\ pc = [t \in Terms |-> "ocioso"]
    /\ req = [t \in Terms |-> SemReq]
    /\ precoLido = [t \in Terms |-> NULL]
    /\ res = [t \in Terms |-> "nenhum"]
    /\ recarregar = [t \in Terms |-> TRUE]
    /\ resCompra = "nenhum"
    /\ SemAlertas
    /\ SemTempo
    /\ SemDemais

Next ==
    \/ \E t \in Balcao : Mount(t) /\ UNCHANGED <<alertas, tempo, demais>>
    \/ \E t \in Balcao : loadProdutos(t) /\ UNCHANGED <<alertas, tempo, demais>>
    \/ \E t \in Balcao, p \in ProdIds :
          handleProdutoChange(t, p) /\ UNCHANGED <<alertas, tempo, demais>>
    \/ \E t \in Balcao, d \in VendaInputs :
          handleSubmit(t, d.q, d.v) /\ UNCHANGED <<alertas, tempo, demais>>
    \/ \E t \in Balcao, d \in ApiVendaInputs :
          ApiInsertVenda(t, d.p, d.q, d.v) /\ UNCHANGED <<alertas, tempo, demais>>
    \/ \E t \in Balcao : VendaCommit(t) /\ UNCHANGED <<alertas, tempo, demais>>
    \/ \E d \in CompraInputs :
          ComprasHandleSubmit(d.p, d.f, d.q, d.c) /\ UNCHANGED <<alertas, tempo, demais>>
    \/ \E d \in ApiCompraInputs :
          ApiInsertCompra(d.p, d.f, d.q, d.c) /\ UNCHANGED <<alertas, tempo, demais>>
    \/ \E d \in ProdutoInputs :
          ProdutosHandleSubmit(d.e, d.q, d.c) /\ UNCHANGED <<alertas, tempo, demais>>
    \/ \E p \in ProdIds : ProdutosHandleDelete(p) /\ UNCHANGED <<alertas, tempo, demais>>

Spec == Init /\ [][Next]_vars

\* ---------------------------------------------------------------- concurrent sales
\* The two stock triggers in a store where product 1 was created with no stock and one
\* purchase of q0 units at unit cost c0 was committed.
ProdutoComprado(q0, c0) ==
    /\ produtos = [p \in ProdIds |->
                     IF p = 1 THEN [existe |-> TRUE, quantidade |-> q0, preco_compra |-> c0]
                     ELSE SemLinha]
    /\ criados = 1
    /\ compras = <<[id |-> 1, produto_id |-> 1, fornecedor_id |-> 1, quantidade |-> q0,
                    preco_unitario |-> c0, total |-> Total(q0, c0)]>>
    /\ numCompras = 1
    /\ vendas = <<>>
    /\ numVendas = 0

\* Every terminal has loaded its product list from that store and has product 1
\* picked in its sale form.
InitConc ==
    /\ \E q0 \in 1..MaxQtd, c0 \in 0..MaxPreco : ProdutoComprado(q0, c0)
    /\ cache = [t \in Terms |-> [p \in ProdIds |-> produtos[p].quantidade]]
    /\ formProduto = [t \in Terms |-> 1]
    /\ pc = [t \in Terms |-> "ocioso"]
    /\ req = [t \in Terms |-> SemReq]
    /\ precoLido = [t \in Terms |-> NULL]
    /\ res = [t \in Terms |-> "nenhum"]
    /\ recarregar = [t \in Terms |-> FALSE]
    /\ resCompra = "sucesso"
    /\ SemAlertas
    /\ SemTempo
    /\ SemDemais

\* Each terminal submits one sale of one unit; nothing else writes to the store.
NextConc ==
    \/ \E t \in Terms, v \in 0..MaxPreco :
          /\ res[t] = "nenhum"
          /\ handleSubmit(t, 1, v)
          /\ UNCHANGED <<alertas, tempo, demais>>
    \/ \E t \in Terms : VendaCommit(t) /\ UNCHANGED <<alertas, tempo, demais>>
    \/ \E t \in Terms : loadProdutos(t) /\ UNCHANGED <<alertas, tempo, demais>>

SpecConc == InitConc /\ [][NextConc]_vars

\* ---------------------------------------------------------------- the ledger alone
\* The reference columns the admin gave product p.
FichaDe(p) == [preco_venda |-> p, quantidade_minima |-> p + 1, validade |-> p + 2]

\* A store in which the admin has created every product, each with one unit and
\* some cost, and no event has been recorded yet; the terminals are about to load their
\* product lists.
InitFrame ==
    /\ produtos \in [ProdIds -> [existe : {TRUE}, quantidade : {1},
                                 preco_compra : 0..MaxPreco]]
    /\ criados = MaxProd
    /\ vendas = <<>>
    /\ compras = <<>>
    /\ numVendas = 0
    /\ numCompras = 0
    /\ cache = [t \in Terms |-> [p \in ProdIds |-> 0]]
    /\ formProduto = [t \in Terms |-> NULL]
    /\ pc = [t \in Terms |-> "ocioso"]
    /\ req = [t \in Terms |-> SemReq]
    /\ precoLido = [t \in Terms |-> NULL]
    /\ res = [t \in Terms |-> "nenhum"]
    /\ recarregar = [t \in Terms |-> TRUE]
    /\ resCompra = "nenhum"
    /\ ficha = [p \in ProdIds |-> FichaDe(p)]
    /\ hoje = 0
    /\ statusAlerta = [p \in ProdIds |-> "nenhum"]
    /\ badge = [p \in ProdIds |-> "nenhum"]
    /\ SemTempo
    /\ SemDemais

\* Sales and purchases only, from the pages and straight to the API; the admin is away.
NextFrame ==
    \/ \E t \in Balcao : loadProdutos(t) /\ UNCHANGED <<alertas, tempo, demais>>
    \/ \E t \in Balcao, p \in ProdIds :
          handleProdutoChange(t, p) /\ UNCHANGED <<alertas, tempo, demais>>
    \/ \E t \in Balcao, d \in VendaInputs :
          handleSubmit(t, d.q, d.v) /\ UNCHANGED <<alertas, tempo, demais>>
    \/ \E t \in Balcao, d \in ApiVendaInputs :
          ApiInsertVenda(t, d.p, d.q, d.v) /\ UNCHANGED <<alertas, tempo, demais>>
    \/ \E t \in Balcao : VendaCommit(t) /\ UNCHANGED <<alertas, tempo, demais>>
    \/ \E d \in CompraInputs :
          ComprasHandleSubmit(d.p, d.f, d.q, d.c) /\ UNCHANGED <<alertas, tempo, demais>>
    \/ \E d \in ApiCompraInputs :
          ApiInsertCompra(d.p, d.f, d.q, d.c) /\ UNCHANGED <<alertas, tempo, demais>>

SpecFrame == InitFrame /\ [][NextFrame]_vars

\* ---------------------------------------------------------------- alerts
\* INTERVAL '30 days' / diasParaVencer <= 30
JanelaDias == 30

\* Instants are counted in half days: (1000 * 60 * 60 * 24) ms are two of them.
PorDia == 2

\* Dates are counted in days from the date of hoje = 0.
\* CURRENT_DATE at instant agora.
CurrentDate(agora) == agora \div PorDia

\* new Date(produto.validade).getTime(): midnight of the date.
GetTime(validade) == validade * PorDia

\* Math.ceil(x / y) for y > 0
Ceil(x, y) == -((-x) \div y)

\* Math.floor(x / y) for y > 0
Floor(x, y) == x \div y

\* The days to expiry rounded down.
DiasParaVencerFloor(validade, agora) == Floor(GetTime(validade) - agora, PorDia)

\* Math.ceil((validade.getTime() - hoje.getTime()) / (1000 * 60 * 60 * 24))
DiasParaVencer(validade, agora) == Ceil(GetTime(validade) - agora, PorDia)

\* The view's CASE with its two WHEN branches in the other order.
StatusAlertaValidadePrimeiro(quantidade, quantidade_minima, validade, agora) ==
    IF validade <= CurrentDate(agora) + JanelaDias THEN "validade_proxima"
    ELSE IF quantidade <= quantidade_minima THEN "estoque_baixo"
    ELSE "ok"

\* produtos_com_alertas.status_alerta
StatusAlerta(quantidade, quantidade_minima, validade, agora) ==
    IF quantidade <= quantidade_minima THEN "estoque_baixo"
    ELSE IF validade <= CurrentDate(agora) + JanelaDias THEN "validade_proxima"
    ELSE "ok"

\* Produtos.getStatusBadge ("sem_badge" is its null)
getStatusBadge(quantidade, quantidade_minima, validade, agora) ==
    LET diasParaVencer == DiasParaVencer(validade, agora) IN
    IF quantidade <= quantidade_minima THEN "Estoque Baixo"
    ELSE IF diasParaVencer <= JanelaDias /\ diasParaVencer >= 0 THEN "Vencendo"
    ELSE IF diasParaVencer < 0 THEN "Vencido"
    ELSE "sem_badge"

\* The expiry dates looked at: from Passado days ago to Horizonte days ahead.
Validades == (-Passado)..Horizonte

\* The instants of today looked at: its midnight and its noon.
Instantes == 0..(PorDia - 1)

\* select status_alerta from produtos_com_alertas where id = p
SelectProdutosComAlertas(p) ==
    /\ Existe(p)
    /\ statusAlerta[p] = "nenhum"
    /\ statusAlerta' = [statusAlerta EXCEPT ![p] =
                           StatusAlerta(produtos[p].quantidade, ficha[p].quantidade_minima,
                                        ficha[p].validade, hoje)]
    /\ UNCHANGED <<db, terminais, resCompra, ficha, hoje, badge, tempo, demais>>

\* The Produtos page renders the row of product p.
RenderStatusBadge(p) ==
    /\ Existe(p)
    /\ badge[p] = "nenhum"
    /\ badge' = [badge EXCEPT ![p] =
                    getStatusBadge(produtos[p].quantidade, ficha[p].quantidade_minima,
                                   ficha[p].validade, hoje)]
    /\ UNCHANGED <<db, terminais, resCompra, ficha, hoje, statusAlerta, tempo, demais>>

\* Product 1 is in the store with some quantity, some minimum quantity and some
\* expiry date, at some instant of today; nothing has been classified yet.
InitAlerta ==
    /\ \E q \in 0..MaxQtd :
          produtos = [p \in ProdIds |->
                         IF p = 1 THEN [existe |-> TRUE, quantidade |-> q, preco_compra |-> 0]
                         ELSE SemLinha]
    /\ criados = 1
    /\ vendas = <<>>
    /\ compras = <<>>
    /\ numVendas = 0
    /\ numCompras = 0
    /\ cache = [t \in Terms |-> [p \in ProdIds |-> 0]]
    /\ formProduto = [t \in Terms |-> NULL]
    /\ pc = [t \in Terms |-> "ocioso"]
    /\ req = [t \in Terms |-> SemReq]
    /\ precoLido = [t \in Terms |-> NULL]
    /\ res = [t \in Terms |-> "nenhum"]
    /\ recarregar = [t \in Terms |-> TRUE]
    /\ resCompra = "nenhum"
    /\ \E m \in 0..MaxQtd, v \in Validades :
          ficha = [p \in ProdIds |->
                      IF p = 1 THEN [preco_venda |-> 0, quantidade_minima |-> m, validade |-> v]
                      ELSE SemFicha]
    /\ hoje \in Instantes
    /\ statusAlerta = [p \in ProdIds |-> "nenhum"]
    /\ badge = [p \in ProdIds |-> "nenhum"]
    /\ SemTempo
    /\ SemDemais

NextAlerta ==
    \/ \E p \in ProdIds : SelectProdutosComAlertas(p)
    \/ \E p \in ProdIds : RenderStatusBadge(p)

SpecAlerta == InitAlerta /\ [][NextAlerta]_vars

\* ---------------------------------------------------------------- timestamps
\* data_venda / data_compra DEFAULT NOW(): NOW() is the start of the row's transaction.
\* The clock moves on whenever a transaction starts.
Now == relogio + 1

\* What the ledger keeps of a quantity change: the row's table, id and recorded
\* timestamp, and the change it made to the product's quantity.
Lancamento(tabela, id, data, delta) ==
    [tabela |-> tabela, id |-> id, data |-> data, delta |-> delta]

\* A sale's insert is sent, from the page or straight to the API: its transaction
\* starts.
VendaInicia(t, q, ui) ==
    /\ relogio < MaxRelogio
    /\ IF ui THEN handleSubmit(t, q, 1) ELSE ApiInsertVenda(t, 1, q, 1)
    /\ pc'[t] = "transacao"
    /\ relogio' = Now
    /\ inicio' = [inicio EXCEPT ![t] = Now]
    /\ UNCHANGED <<alertas, diario, demais>>

\* The sale's transaction ends: on a commit its row carries the transaction's start.
VendaTermina(t) ==
    /\ VendaCommit(t)
    /\ diario' = IF Len(vendas') > Len(vendas)
                 THEN Append(diario, Lancamento("vendas", numVendas', inicio[t],
                                                -req[t].quantidade))
                 ELSE diario
    /\ inicio' = [inicio EXCEPT ![t] = NULL]
    /\ UNCHANGED <<alertas, relogio, demais>>

\* A purchase of product 1: its transaction starts and ends in one step.
CompraComData(q, ui) ==
    /\ relogio < MaxRelogio
    /\ IF ui THEN ComprasHandleSubmit(1, 1, q, 1) ELSE ApiInsertCompra(1, 1, q, 1)
    /\ relogio' = Now
    /\ diario' = IF Len(compras') > Len(compras)
                 THEN Append(diario, Lancamento("compras", numCompras', Now, q))
                 ELSE diario
    /\ UNCHANGED <<alertas, inicio, demais>>

\* Product 1 was created with no stock or with one unit; each terminal has loaded its
\* product list and has product 1 picked in its sale form.
InitTempo ==
    /\ \E q0 \in 0..1 :
          produtos = [p \in ProdIds |->
                         IF p = 1 THEN [existe |-> TRUE, quantidade |-> q0, preco_compra |-> 0]
                         ELSE SemLinha]
    /\ criados = 1
    /\ vendas = <<>>
    /\ compras = <<>>
    /\ numVendas = 0
    /\ numCompras = 0
    /\ cache = [t \in Terms |-> [p \in ProdIds |-> produtos[p].quantidade]]
    /\ formProduto = [t \in Terms |-> 1]
    /\ pc = [t \in Terms |-> "ocioso"]
    /\ req = [t \in Terms |-> SemReq]
    /\ precoLido = [t \in Terms |-> NULL]
    /\ res = [t \in Terms |-> "nenhum"]
    /\ recarregar = [t \in Terms |-> FALSE]
    /\ resCompra = "nenhum"
    /\ SemAlertas
    /\ SemTempo
    /\ SemDemais

\* Concurrent sales and purchases of product 1.
NextTempo ==
    \/ \E t \in Terms, q \in 1..MaxQtd, ui \in BOOLEAN : VendaInicia(t, q, ui)
    \/ \E t \in Terms : VendaTermina(t)
    \/ \E q \in 1..MaxQtd, ui \in BOOLEAN : CompraComData(q, ui)
    \/ \E t \in Terms : loadProdutos(t) /\ UNCHANGED <<alertas, tempo, demais>>
    \/ \E t \in Terms : handleProdutoChange(t, 1) /\ UNCHANGED <<alertas, tempo, demais>>

SpecTempo == InitTempo /\ [][NextTempo]_vars

\* ---------------------------------------------------------------- the store's API
\* DECIMAL(10,2): the largest amount a money column holds, on the model's scale.
NumericMax == 2

\* numeric field overflow
Overflow(x) == x # NULL /\ (x > NumericMax \/ x < -NumericMax)

\* The insert policy admitting any authenticated user.
RlsInsertAutenticado(uid, user_id) == uid # NULL

\* FOR INSERT WITH CHECK (auth.uid() = user_id)
RlsInsert(uid, user_id) == uid # NULL /\ user_id # NULL /\ uid = user_id

\* The trigger keeping a lucro that came with the insert.
LucroGravadoSeAusente(informado, v, custo, q) ==
    IF informado # NULL THEN informado ELSE Lucro(v, custo, q)

\* NEW.lucro := ...: the trigger assigns, whatever the insert carried.
LucroGravado(informado, v, custo, q) == Lucro(v, custo, q)

\* The inserts a caller can send: a product id that is in the store, was deleted or is
\* absent, a user_id that is the caller's, another user's or absent, a lucro or none.
ApiLinhaInputs ==
    {d \in [p : ProdIds \cup {NULL}, q : 0..2, v : (-1)..NumericMax,
            w : Usuarios \cup {NULL}, l : {NULL, 1}] :
        UmaFalha(<<d.p # 1, d.q < 1, d.v < 0, d.q * d.v > NumericMax, d.w # 1, d.l # NULL>>)}

\* An insert into vendas sent to the API by the user signed in at terminal t, saying
\* who made the sale and, maybe, its lucro.
ApiInsertVendaComAtor(t, p, q, v, w, l) ==
    /\ ApiInsertVenda(t, p, q, v)
    /\ pedido' = [pedido EXCEPT ![t] = [user_id |-> w, lucro |-> l]]
    /\ UNCHANGED <<alertas, tempo, sessao, autores, tela, painel, papeis, formulario>>

\* The outcome of the rest of the insert's transaction: the trigger's assignment of
\* lucro and its UPDATE, the generated total, the insert policy, then the row's
\* constraints and its foreign key.
VendaErroApi(t) ==
    LET r == req[t] IN
    IF Overflow(LucroGravado(pedido[t].lucro, r.preco_unitario, precoLido[t], r.quantidade))
    THEN "erro_overflow"
    ELSE IF VendaErro(r) = "erro_estoque"
    THEN "erro_estoque"
    ELSE IF Overflow(Total(r.quantidade, r.preco_unitario))
    THEN "erro_overflow"
    ELSE IF ~RlsInsert(sessao[t], pedido[t].user_id)
    THEN "erro_rls"
    ELSE VendaErro(r)

\* The vendas row the transaction inserts.
VendaLinhaApi(t) ==
    LET r == req[t] IN
    [id |-> numVendas + 1,
     produto_id |-> r.produto_id,
     quantidade |-> r.quantidade,
     preco_unitario |-> r.preco_unitario,
     total |-> Total(r.quantidade, r.preco_unitario),
     lucro |-> LucroGravado(pedido[t].lucro, r.preco_unitario, precoLido[t], r.quantidade),
     user_id |-> pedido[t].user_id]

\* The trigger's UPDATE outliving an insert refused after it.
ProdutosAposVendaSemRollback(r, fim) ==
    IF Existe(r.produto_id) /\ fim \in {"sucesso", "erro_rls", "erro_check"}
    THEN [produtos EXCEPT ![r.produto_id].quantidade = NovaQuantidadeVenda(@, r.quantidade)]
    ELSE produtos

\* produtos when the transaction is over: the trigger's UPDATE is kept on a commit and
\* undone on a rollback.
ProdutosAposVenda(r, fim) ==
    IF fim = "sucesso" /\ r.produto_id # NULL
    THEN [produtos EXCEPT ![r.produto_id].quantidade = NovaQuantidadeVenda(@, r.quantidade)]
    ELSE produtos

\* Who was signed in when row id of a table was inserted.
Autor(tabela, id, uid) == [tabela |-> tabela, id |-> id, uid |-> uid]

\* The insert's transaction from the trigger's UPDATE on, as the API answers it.
VendaCommitApi(t) ==
    /\ pc[t] = "transacao"
    /\ LET fim == VendaErroApi(t) IN
        /\ IF fim = "sucesso"
           THEN /\ vendas' = Append(vendas, VendaLinhaApi(t))
                /\ numVendas' = numVendas + 1
                /\ autores' = Append(autores, Autor("vendas", numVendas + 1, sessao[t]))
           ELSE UNCHANGED <<vendas, numVendas, autores>>
        /\ produtos' = ProdutosAposVenda(req[t], fim)
        /\ res' = [res EXCEPT ![t] = fim]
    /\ pc' = [pc EXCEPT ![t] = "ocioso"]
    /\ req' = [req EXCEPT ![t] = SemReq]
    /\ precoLido' = [precoLido EXCEPT ![t] = NULL]
    /\ UNCHANGED <<criados, compras, numCompras, cache, formProduto, recarregar, resCompra,
                   alertas, tempo, sessao, pedido, tela, painel, papeis, formulario>>

\* The outcome of a purchase's insert: the generated total, the insert policy, then
\* the row's constraints, the trigger's UPDATE and the foreign keys.
CompraErroApi(t, p, f, q, c, w) ==
    IF Overflow(Total(q, c))
    THEN "erro_overflow"
    ELSE IF ~RlsInsert(sessao[t], w)
    THEN "erro_rls"
    ELSE CompraErro(p, f, q, c)

\* An insert into compras sent to the API by the user signed in at terminal t.
ApiInsertCompraComAtor(t, p, f, q, c, w) ==
    LET fim == CompraErroApi(t, p, f, q, c, w) IN
    /\ p = NULL \/ p \in 1..criados
    /\ numCompras < MaxCompras
    /\ IF fim = "sucesso"
       THEN /\ compras' = Append(compras, [id |-> numCompras + 1, produto_id |-> p,
                                           fornecedor_id |-> f, quantidade |-> q,
                                           preco_unitario |-> c, total |-> Total(q, c),
                                           user_id |-> w])
            /\ numCompras' = numCompras + 1
            /\ autores' = Append(autores, Autor("compras", numCompras + 1, sessao[t]))
            /\ produtos' =
                   IF p = NULL THEN produtos
                   ELSE [produtos EXCEPT ![p].quantidade = NovaQuantidadeCompra(@, q)]
       ELSE UNCHANGED <<produtos, compras, numCompras, autores>>
    /\ resCompra' = fim
    /\ UNCHANGED <<criados, vendas, numVendas, terminais, alertas, tempo, sessao, pedido,
                   tela, painel, papeis, formulario>>

\* Product 1 is in the store with some units and some cost; product 2 was created and
\* deleted again; nothing was sold or bought through the ledger.
InitApi ==
    /\ \E q0 \in 1..MaxQtd, c0 \in 0..MaxPreco :
          produtos = [p \in ProdIds |->
                         IF p = 1 THEN [existe |-> TRUE, quantidade |-> q0, preco_compra |-> c0]
                         ELSE SemLinha]
    /\ criados = MaxProd
    /\ vendas = <<>>
    /\ compras = <<>>
    /\ numVendas = 0
    /\ numCompras = 0
    /\ cache = [t \in Terms |-> [p \in ProdIds |-> 0]]
    /\ formProduto = [t \in Terms |-> NULL]
    /\ pc = [t \in Terms |-> "ocioso"]
    /\ req = [t \in Terms |-> SemReq]
    /\ precoLido = [t \in Terms |-> NULL]
    /\ res = [t \in Terms |-> "nenhum"]
    /\ recarregar = [t \in Terms |-> FALSE]
    /\ resCompra = "nenhum"
    /\ SemAlertas
    /\ SemTempo
    /\ SemDemais

\* The users send inserts to the API; the user at terminal 1 tries every row.
NextApi ==
    \/ \E d \in ApiLinhaInputs : ApiInsertVendaComAtor(1, d.p, d.q, d.v, d.w, d.l)
    \/ \E t \in Terms \ {1}, q \in 1..2 : ApiInsertVendaComAtor(t, 1, q, 1, t, NULL)
    \/ \E t \in Terms : VendaCommitApi(t)
    \/ \E d \in ApiLinhaInputs : ApiInsertCompraComAtor(1, d.p, 1, d.q, d.v, d.w)

SpecApi == InitApi /\ [][NextApi]_vars

\* ---------------------------------------------------------------- dialogs and toasts
\* toast.success / toast.error
Toast(ts, tipo) ==
    IF tipo = "sucesso" THEN [ts EXCEPT !.sucesso = @ + 1] ELSE [ts EXCEPT !.erro = @ + 1]

\* The answer of the insert reported without looking at its error.
ToastDaRespostaSemThrow(fim) == "sucesso"

\* if (error) throw error; toast.success(...) / catch: toast.error(...)
ToastDaResposta(fim) == IF fim = "sucesso" THEN "sucesso" ELSE "erro"

\* DialogTrigger: the operator opens the form's dialog.
AbrirDialogo(g) ==
    /\ ~dialogOpen[g]
    /\ dialogOpen' = [dialogOpen EXCEPT ![g] = TRUE]
    /\ UNCHANGED <<db, terminais, resCompra, alertas, tempo, api, loading, toasts, cancelou,
                   painel, papeis, formulario>>

\* Cancelar: onClick={() => setDialogOpen(false)}, whatever the form is doing.
Cancelar(g) ==
    /\ dialogOpen[g]
    /\ dialogOpen' = [dialogOpen EXCEPT ![g] = FALSE]
    /\ cancelou' = [cancelou EXCEPT ![g] = TRUE]
    /\ UNCHANGED <<db, terminais, resCompra, alertas, tempo, api, loading, toasts,
                   painel, papeis, formulario>>

\* The sale form is submitted: Vendas.handleSubmit up to its await, or to its end when
\* it sends nothing.
SubmeterVenda(t, q, v) ==
    /\ dialogOpen[t]
    /\ ~loading[t]
    /\ handleSubmit(t, q, v)
    /\ IF pc'[t] = "transacao"
       THEN /\ loading' = [loading EXCEPT ![t] = TRUE]
            /\ toasts' = [toasts EXCEPT ![t] = SemToasts]
       ELSE /\ loading' = [loading EXCEPT ![t] = FALSE]
            /\ toasts' = [toasts EXCEPT ![t] = Toast(SemToasts, "erro")]
    /\ cancelou' = [cancelou EXCEPT ![t] = FALSE]
    /\ UNCHANGED <<alertas, tempo, api, dialogOpen, painel, papeis, formulario>>

\* The insert's transaction ends and Vendas.handleSubmit runs on after its await.
RespostaVenda(t) ==
    /\ VendaCommit(t)
    /\ toasts' = [toasts EXCEPT ![t] = Toast(@, ToastDaResposta(res'[t]))]
    /\ loading' = [loading EXCEPT ![t] = FALSE]
    /\ dialogOpen' = IF res'[t] = "sucesso" THEN [dialogOpen EXCEPT ![t] = FALSE]
                     ELSE dialogOpen
    /\ UNCHANGED <<alertas, tempo, api, cancelou, painel, papeis, formulario>>

\* The purchase form is submitted: Compras.handleSubmit from end to end.
SubmeterCompra(p, f, q, c) ==
    /\ dialogOpen[PaginaCompras]
    /\ ~loading[PaginaCompras]
    /\ ComprasHandleSubmit(p, f, q, c)
    /\ toasts' = [toasts EXCEPT ![PaginaCompras] =
                     Toast(SemToasts, ToastDaResposta(resCompra'))]
    /\ loading' = [loading EXCEPT ![PaginaCompras] = FALSE]
    /\ dialogOpen' = IF resCompra' = "sucesso"
                     THEN [dialogOpen EXCEPT ![PaginaCompras] = FALSE]
                     ELSE dialogOpen
    /\ cancelou' = [cancelou EXCEPT ![PaginaCompras] = FALSE]
    /\ UNCHANGED <<alertas, tempo, api, painel, papeis, formulario>>

\* Product 1 is in the store with some units; the pages are mounted with their dialogs
\* closed.
InitPagina ==
    /\ \E q0 \in 1..MaxQtd :
          produtos = [p \in ProdIds |->
                         IF p = 1 THEN [existe |-> TRUE, quantidade |-> q0, preco_compra |-> 0]
                         ELSE SemLinha]
    /\ criados = 1
    /\ vendas = <<>>
    /\ compras = <<>>
    /\ numVendas = 0
    /\ numCompras = 0
    /\ cache = [t \in Terms |-> [p \in ProdIds |-> 0]]
    /\ formProduto = [t \in Terms |-> NULL]
    /\ pc = [t \in Terms |-> "ocioso"]
    /\ req = [t \in Terms |-> SemReq]
    /\ precoLido = [t \in Terms |-> NULL]
    /\ res = [t \in Terms |-> "nenhum"]
    /\ recarregar = [t \in Terms |-> TRUE]
    /\ resCompra = "nenhum"
    /\ SemAlertas
    /\ SemTempo
    /\ SemDemais

\* The operators at the sale terminal and at the Compras page.
NextPagina ==
    \/ \E t \in Balcao : loadProdutos(t) /\ UNCHANGED <<alertas, tempo, demais>>
    \/ \E t \in Balcao, p \in ProdIds :
          /\ dialogOpen[t]
          /\ handleProdutoChange(t, p)
          /\ UNCHANGED <<alertas, tempo, demais>>
    \/ \E g \in Balcao \cup {PaginaCompras} : AbrirDialogo(g)
    \/ \E g \in Balcao \cup {PaginaCompras} : Cancelar(g)
    \/ \E t \in Balcao, d \in VendaInputs : SubmeterVenda(t, d.q, d.v)
    \/ \E t \in Balcao : RespostaVenda(t)
    \/ \E d \in CompraInputs : SubmeterCompra(d.p, d.f, d.q, d.c)

SpecPagina == InitPagina /\ [][NextPagina]_vars

\* ---------------------------------------------------------------- Dashboard
\* .slice(0, 5)
TopN == 5

\* produtosMap's keys in the order in which forEach sets them.
RECURSIVE Chaves(_)
Chaves(linhas) ==
    IF linhas = <<>> THEN <<>>
    ELSE LET antes == Chaves(SubSeq(linhas, 1, Len(linhas) - 1))
             id == linhas[Len(linhas)].produto_id
         IN  IF \E i \in 1..Len(antes) : antes[i] = id THEN antes ELSE Append(antes, id)

\* produtosMap.get(id).quantidade + qtd, over the rows of the key
RECURSIVE QuantidadeDaChave(_, _)
QuantidadeDaChave(linhas, id) ==
    IF linhas = <<>> THEN 0
    ELSE (IF Head(linhas).produto_id = id THEN Head(linhas).quantidade ELSE 0)
         + QuantidadeDaChave(Tail(linhas), id)

\* Array.from(produtosMap.values()), each entry with the key that stands for its nome
ProdutosMap(linhas) ==
    [i \in 1..Len(Chaves(linhas)) |->
        [chave |-> Chaves(linhas)[i],
         quantidade |-> QuantidadeDaChave(linhas, Chaves(linhas)[i])]]

\* .sort((a, b) => b.quantidade - a.quantidade): stable, largest first
RECURSIVE SortDesc(_)
SortDesc(s) ==
    IF s = <<>> THEN <<>>
    ELSE LET r == SortDesc(SubSeq(s, 1, Len(s) - 1))
             e == s[Len(s)]
             k == Cardinality({i \in 1..Len(r) : r[i].quantidade >= e.quantidade})
         IN  SubSeq(r, 1, k) \o <<e>> \o SubSeq(r, k + 1, Len(r))

\* .slice(0, n)
Slice(s, n) == SubSeq(s, 1, IF Len(s) < n THEN Len(s) ELSE n)

\* The list's computation from the rows of the month.
TopProdutosArray(linhas) == Slice(SortDesc(ProdutosMap(linhas)), TopN)

\* loadDashboardData: the top products.
loadDashboardData ==
    /\ topProdutos = <<>>
    /\ topProdutos' = TopProdutosArray(topVendas)
    /\ UNCHANGED <<db, terminais, resCompra, alertas, tempo, api, tela, topVendas,
                   formulario, papeis>>

\* The Dashboard opens on a month with TopN + 2 sales: each of the TopN + 1 products
\* was sold, one of them twice or, the last sale, with no product id (an insert the
\* store's API accepts), in quantities of 1 to MaxQtd.
InitPainel ==
    /\ produtos = [p \in ProdIds |-> SemLinha]
    /\ criados = 0
    /\ vendas = <<>>
    /\ compras = <<>>
    /\ numVendas = 0
    /\ numCompras = 0
    /\ cache = [t \in Terms |-> [p \in ProdIds |-> 0]]
    /\ formProduto = [t \in Terms |-> NULL]
    /\ pc = [t \in Terms |-> "ocioso"]
    /\ req = [t \in Terms |-> SemReq]
    /\ precoLido = [t \in Terms |-> NULL]
    /\ res = [t \in Terms |-> "nenhum"]
    /\ recarregar = [t \in Terms |-> TRUE]
    /\ resCompra = "nenhum"
    /\ SemAlertas
    /\ SemTempo
    /\ sessao = [t \in Terms |-> t]
    /\ pedido = [t \in Terms |-> SemPedido]
    /\ autores = <<>>
    /\ dialogOpen = [g \in Paginas |-> FALSE]
    /\ loading = [g \in Paginas |-> FALSE]
    /\ toasts = [g \in Paginas |-> SemToasts]
    /\ cancelou = [g \in Paginas |-> FALSE]
    /\ editingProduto = NULL
    /\ formData = FormEmBranco
    /\ formAberto = FALSE
    /\ viaNovo = FALSE
    /\ SemPapeis
    /\ \E qs \in [1..(TopN + 2) -> 1..MaxQtd], ultimo \in {1, NULL} :
          topVendas = [i \in 1..(TopN + 2) |->
                          [produto_id |-> IF i <= TopN + 1 THEN i ELSE ultimo,
                           quantidade |-> qs[i]]]
    /\ topProdutos = <<>>

NextPainel == loadDashboardData

SpecPainel == InitPainel /\ [][NextPainel]_vars

\* ---------------------------------------------------------------- the product form
\* DialogTrigger (Novo Produto): onOpenChange(true), which is setDialogOpen(true).
NovoProduto ==
    /\ ~formAberto
    /\ formAberto' = TRUE
    /\ viaNovo' = TRUE
    /\ UNCHANGED <<db, terminais, resCompra, alertas, tempo, api, tela, painel, papeis,
                   editingProduto, formData>>

\* openEditDialog(produto), from the row's Editar button.
openEditDialog(p) ==
    /\ ~formAberto
    /\ Existe(p)
    /\ editingProduto' = p
    /\ formData' = [quantidade |-> produtos[p].quantidade,
                    preco_compra |-> produtos[p].preco_compra]
    /\ formAberto' = TRUE
    /\ viaNovo' = FALSE
    /\ UNCHANGED <<db, terminais, resCompra, alertas, tempo, api, tela, painel, papeis>>

\* Cancelar: onClick={() => setDialogOpen(false)}
CancelarProduto ==
    /\ formAberto
    /\ formAberto' = FALSE
    /\ UNCHANGED <<db, terminais, resCompra, alertas, tempo, api, tela, painel, papeis,
                   editingProduto, formData, viaNovo>>

\* The dialog closes itself (its X, Escape, a click outside): onOpenChange(false),
\* which is setDialogOpen(false) and resetForm().
FecharDialogo ==
    /\ formAberto
    /\ formAberto' = FALSE
    /\ formData' = FormEmBranco
    /\ editingProduto' = NULL
    /\ UNCHANGED <<db, terminais, resCompra, alertas, tempo, api, tela, painel, papeis,
                   viaNovo>>

\* The admin types into the form.
Digitar(q, c) ==
    /\ formAberto
    /\ formData' = [quantidade |-> q, preco_compra |-> c]
    /\ UNCHANGED <<db, terminais, resCompra, alertas, tempo, api, tela, painel, papeis,
                   editingProduto, formAberto, viaNovo>>

\* Salvar: Produtos.handleSubmit with the form as it stands; a blank field parses to
\* NaN, which the schema refuses.
Salvar ==
    /\ formAberto
    /\ ProdutosHandleSubmit(editingProduto, formData.quantidade, formData.preco_compra)
    /\ IF formData.quantidade # NULL /\ formData.preco_compra # NULL
          /\ produtoSchema(formData.quantidade, formData.preco_compra)
       THEN /\ formAberto' = FALSE
            /\ formData' = FormEmBranco
            /\ editingProduto' = NULL
       ELSE UNCHANGED <<formAberto, formData, editingProduto>>
    /\ UNCHANGED <<alertas, tempo, api, tela, painel, papeis, viaNovo>>

\* The admin at the Produtos page of an empty store.
NextForm ==
    \/ NovoProduto
    \/ \E p \in ProdIds : openEditDialog(p)
    \/ CancelarProduto
    \/ FecharDialogo
    \/ \E d \in ProdutoInputs : Digitar(d.q, d.c)
    \/ Salvar

SpecForm == Init /\ [][NextForm]_vars

\* ---------------------------------------------------------------- roles
\* raw_user_meta_data->>'role' as the sign-up request can carry it
MetaRoles == {"ausente", "admin", "vendedor", "outro"}

\* COALESCE(NEW.raw_user_meta_data->>'role', 'vendedor')
RoleDoCadastro(meta) == IF meta = "ausente" THEN "vendedor" ELSE meta

\* CHECK (role IN ('admin', 'vendedor'))
RoleCheck(r) == r \in {"admin", "vendedor"}

\* profiles FOR UPDATE USING (auth.uid() = id)
ProfilesUpdatePolicy(uid, id) == uid = id

\* produtos FOR ALL USING (EXISTS (SELECT 1 FROM profiles WHERE id = auth.uid() AND
\* role = 'admin')), which is also the page's isAdmin
AdminPolicy(uid) == perfis[uid] = "admin"

\* autores with one more entry, once.
Registrar(a) ==
    IF \E i \in 1..Len(autores) : autores[i] = a THEN autores ELSE Append(autores, a)

\* supabase.auth.signUp with metadata chosen by the user: on_auth_user_created runs
\* handle_new_user; a role the CHECK refuses aborts the sign-up.
SignUp(u, meta) ==
    /\ perfis[u] = "nenhum"
    /\ perfis' = IF RoleCheck(RoleDoCadastro(meta))
                 THEN [perfis EXCEPT ![u] = RoleDoCadastro(meta)]
                 ELSE perfis
    /\ UNCHANGED <<db, terminais, resCompra, alertas, tempo, api, tela, painel, formulario,
                   promovidos>>

\* update profiles set role = r where id = alvo, sent to the API by user u.
UpdateProfile(u, alvo, r) ==
    /\ perfis[u] # "nenhum"
    /\ perfis' = IF perfis[alvo] # "nenhum" /\ ProfilesUpdatePolicy(u, alvo) /\ RoleCheck(r)
                 THEN [perfis EXCEPT ![alvo] = r]
                 ELSE perfis
    /\ promovidos' = IF perfis' # perfis THEN promovidos \ {alvo} ELSE promovidos
    /\ UNCHANGED <<db, terminais, resCompra, alertas, tempo, api, tela, painel, formulario>>

\* The owner of the store makes user u an admin (in the database, not through the API).
Promover(u) ==
    /\ perfis[u] = "vendedor"
    /\ perfis' = [perfis EXCEPT ![u] = "admin"]
    /\ promovidos' = promovidos \cup {u}
    /\ UNCHANGED <<db, terminais, resCompra, alertas, tempo, api, tela, painel, formulario>>

\* User u creates or edits a product: the policy of produtos lets an admin through
\* and shows nobody else a row to write.
GerirProduto(u, editing, q, c) ==
    /\ perfis[u] # "nenhum"
    /\ IF AdminPolicy(u)
       THEN /\ ProdutosHandleSubmit(editing, q, c)
            /\ autores' = IF produtos' # produtos
                          THEN Registrar(Autor("produtos",
                                               IF editing = NULL THEN criados' ELSE editing, u))
                          ELSE autores
       ELSE UNCHANGED <<db, terminais, resCompra, autores>>
    /\ UNCHANGED <<alertas, tempo, sessao, pedido, tela, painel, formulario, papeis>>

\* User u deletes a product.
ApagarProduto(u, p) ==
    /\ perfis[u] # "nenhum"
    /\ IF AdminPolicy(u)
       THEN /\ ProdutosHandleDelete(p)
            /\ autores' = Registrar(Autor("produtos", p, u))
       ELSE UNCHANGED <<db, terminais, resCompra, autores>>
    /\ UNCHANGED <<alertas, tempo, sessao, pedido, tela, painel, formulario, papeis>>

\* User u buys through the API.
ComprarComo(u, p, f, q, c) ==
    /\ perfis[u] # "nenhum"
    /\ ApiInsertCompra(p, f, q, c)
    /\ UNCHANGED <<alertas, tempo, demais>>

\* An empty store and nobody signed up.
InitPapel ==
    /\ produtos = [p \in ProdIds |-> SemLinha]
    /\ criados = 0
    /\ vendas = <<>>
    /\ compras = <<>>
    /\ numVendas = 0
    /\ numCompras = 0
    /\ cache = [t \in Terms |-> [p \in ProdIds |-> 0]]
    /\ formProduto = [t \in Terms |-> NULL]
    /\ pc = [t \in Terms |-> "ocioso"]
    /\ req = [t \in Terms |-> SemReq]
    /\ precoLido = [t \in Terms |-> NULL]
    /\ res = [t \in Terms |-> "nenhum"]
    /\ recarregar = [t \in Terms |-> TRUE]
    /\ resCompra = "nenhum"
    /\ SemAlertas
    /\ SemTempo
    /\ SemOutros
    /\ perfis = [u \in Usuarios |-> "nenhum"]
    /\ promovidos = {}

NextPapel ==
    \/ \E u \in Usuarios, meta \in MetaRoles : SignUp(u, meta)
    \/ \E u, alvo \in Usuarios, r \in {"admin", "vendedor", "outro"} : UpdateProfile(u, alvo, r)
    \/ \E u \in Usuarios : Promover(u)
    \/ \E u \in Usuarios, d \in ProdutoInputs : GerirProduto(u, d.e, d.q, d.c)
    \/ \E u \in Usuarios, p \in ProdIds : ApagarProduto(u, p)
    \/ \E u \in Usuarios, d \in ApiCompraInputs : ComprarComo(u, d.p, d.f, d.q, d.c)

SpecPapel == InitPapel /\ [][NextPapel]_vars

\* ================================================================ properties
Min(a, b) == IF a <= b THEN a ELSE b

\* The last row of a table.
Ultima(tabela) == tabela[Len(tabela)]

\* Terminal t's insert ends in this step (committed or rolled back).
FimDaVenda(t) == pc[t] = "transacao" /\ pc'[t] = "ocioso"

\* C1: in every reachable state every product's quantidade is >= 0.
TeoC1 == \A p \in ProdIds : produtos[p].quantidade >= 0

\* The CHECK has refused a sale that asked for more than was left after another sale.
WitC1 == \E t \in Terms : res[t] = "erro_estoque" /\ vendas # <<>>

\* C2: every product's quantity equals the sum of the quantities of its purchase
\* events minus the sum of the quantities of its sale events, and is >= 0, whatever
\* the operations were (product creation, edit and deletion included).
CexC2 ==
    \A p \in ProdIds :
        produtos[p].existe =>
            /\ produtos[p].quantidade =
                   SomaQtd(DoProduto(compras, p)) - SomaQtd(DoProduto(vendas, p))
            /\ produtos[p].quantidade >= 0

\* C3: NumTerm sales of one unit each, submitted side by side against a product
\* with Q units (every terminal checking its own cached list): never more sales
\* committed than there were units, and once all have ended exactly Min(NumTerm, Q)
\* are committed, the others are refused for lack of stock, and Q - Min(NumTerm, Q)
\* units are left.
EstoqueInicial == SomaQtd(DoProduto(compras, 1))
TerminouConc == \A t \in Terms : res[t] # "nenhum" /\ pc[t] = "ocioso"
TeoC3 ==
    /\ produtos[1].quantidade >= 0
    /\ Len(vendas) <= EstoqueInicial
    /\ TerminouConc =>
          LET k == Min(NumTerm, EstoqueInicial) IN
          /\ Cardinality({t \in Terms : res[t] = "sucesso"}) = k
          /\ Len(vendas) = k
          /\ Cardinality({t \in Terms : res[t] \in {"estoque_insuficiente", "erro_estoque"}})
                = NumTerm - k
          /\ produtos[1].quantidade = EstoqueInicial - k

\* All sales have ended, one committed and one, which had passed its terminal's
\* check on the quantity cached before the other's decrement, refused by the store.
WitC3 ==
    /\ TerminouConc
    /\ \E t \in Terms : res[t] = "sucesso"
    /\ \E t \in Terms : res[t] = "erro_estoque"

\* C4: a sale asking for more than the product has on hand is refused, and the
\* refusal, by the terminal's stock check or by the store, changes no product and
\* appends no sale.
TeoC4 ==
    [][\A t \in Terms :
        /\ (/\ FimDaVenda(t)
            /\ Existe(req[t].produto_id)
            /\ req[t].quantidade > produtos[req[t].produto_id].quantidade)
              => /\ res'[t] = "erro_estoque"
                 /\ produtos' = produtos
                 /\ vendas' = vendas
        /\ (res'[t] # res[t] /\ res'[t] \in {"estoque_insuficiente", "erro_estoque"})
              => /\ produtos' = produtos
                 /\ vendas' = vendas
                 /\ pc'[t] = "ocioso"
      ]_vars

\* The store has refused a sale and the product still has its units, with no sale logged.
WitC4 ==
    \E t \in Terms, p \in ProdIds :
        /\ res[t] = "erro_estoque"
        /\ produtos[p].existe
        /\ produtos[p].quantidade > 0
        /\ vendas = <<>>

\* C5: a sale is refused for lack of stock if and only if it asks for more than the
\* store holds of the product at that moment: by the terminal, only when the quantity
\* asked exceeds the store's; by the store, whenever it does.
CexC5 ==
    [][\A t \in Terms :
        /\ \A q \in QtdInputs, v \in PrecoInputs :
              (handleSubmit(t, q, v) /\ res'[t] = "estoque_insuficiente")
                 => (~Existe(formProduto[t]) \/ q > produtos[formProduto[t]].quantidade)
        /\ (FimDaVenda(t) /\ Existe(req[t].produto_id))
              => (res'[t] = "erro_estoque"
                    <=> req[t].quantidade > produtos[req[t].produto_id].quantidade)
      ]_vars

Invalida(q, v) == q <= 0 \/ v < 0
CexC7 ==
    [][/\ \A t \in Terms, d \in VendaInputs :
              (handleSubmit(t, d.q, d.v) /\ Invalida(d.q, d.v))
                 => (res'[t] = "invalido" /\ pc'[t] = "ocioso" /\ UNCHANGED db)
       /\ \A t \in Terms :
              (FimDaVenda(t) /\ Invalida(req[t].quantidade, req[t].preco_unitario))
                 => (res'[t] = "erro_check" /\ UNCHANGED db)
       /\ \A d \in CompraInputs :
              (ComprasHandleSubmit(d.p, d.f, d.q, d.c) /\ Invalida(d.q, d.c))
                 => (resCompra' = "invalido" /\ UNCHANGED db)
       /\ \A d \in ApiCompraInputs :
              (ApiInsertCompra(d.p, d.f, d.q, d.c) /\ Invalida(d.q, d.c))
                 => (resCompra' = "erro_check" /\ UNCHANGED db)
      ]_vars

\* C8: the quantity change of a purchase or a sale and its event appear in one step:
\* no step appends an event without changing the product's quantity by the event's
\* quantity, and no step that ends a sale's insert or reports a purchase's outcome
\* changes a product without appending its event.
TeoC8 ==
    [][/\ vendas' # vendas /\ Len(vendas') >= Len(vendas) =>
              LET e == Ultima(vendas') IN
              /\ vendas' = Append(vendas, e)
              /\ e.produto_id # NULL =>
                    produtos' = [produtos EXCEPT ![e.produto_id].quantidade = @ - e.quantidade]
       /\ compras' # compras /\ Len(compras') >= Len(compras) =>
              LET e == Ultima(compras') IN
              /\ compras' = Append(compras, e)
              /\ e.produto_id # NULL =>
                    produtos' = [produtos EXCEPT ![e.produto_id].quantidade = @ + e.quantidade]
       /\ \A t \in Terms :
              (FimDaVenda(t) /\ produtos' # produtos) => Len(vendas') = Len(vendas) + 1
       /\ (resCompra' # resCompra /\ produtos' # produtos)
              => Len(compras') = Len(compras) + 1
      ]_vars

\* A product with a committed purchase and a committed sale.
WitC8 ==
    \E p \in ProdIds :
        /\ produtos[p].existe
        /\ DoProduto(vendas, p) # <<>>
        /\ DoProduto(compras, p) # <<>>

\* C9: every committed sale stores lucro = (preco_unitario - preco_compra) x quantidade,
\* with the product's preco_compra as it is at the instant the sale's decrement commits.
CexC9 ==
    [][Len(vendas') = Len(vendas) + 1 =>
          LET e == Ultima(vendas') IN
          e.produto_id # NULL =>
              e.lucro = (e.preco_unitario - produtos[e.produto_id].preco_compra) * e.quantidade
      ]_vars

\* C10: the lucro of a committed sale never changes: a sale row that is still in the
\* table after a step has the lucro it had before it.
TeoC10 ==
    [][\A i \in 1..Len(vendas), j \in 1..Len(vendas') :
          vendas[i].id = vendas'[j].id => vendas'[j].lucro = vendas[i].lucro
      ]_vars

\* A sale whose stored lucro is no longer what the product's present cost would give.
WitC10 ==
    \E i \in 1..Len(vendas) :
        /\ Existe(vendas[i].produto_id)
        /\ vendas[i].lucro #
              (vendas[i].preco_unitario - produtos[vendas[i].produto_id].preco_compra)
                 * vendas[i].quantidade

\* C11: every committed sale and every committed purchase stores
\* total = quantidade x preco_unitario, of the row's own quantity and unit price.
TeoC11 ==
    /\ \A i \in 1..Len(vendas) :
          vendas[i].total = vendas[i].quantidade * vendas[i].preco_unitario
    /\ \A i \in 1..Len(compras) :
          compras[i].total = compras[i].quantidade * compras[i].preco_unitario

\* A sale and a purchase of two units each at unit price 1 are in the tables.
WitC11 ==
    /\ \E i \in 1..Len(vendas) : vendas[i].quantidade = 2 /\ vendas[i].preco_unitario = 1
    /\ \E i \in 1..Len(compras) : compras[i].quantidade = 2 /\ compras[i].preco_unitario = 1

\* C12: a purchase submitted on the page with no supplier chosen, for an existing
\* product, with quantity >= 1 and unit cost >= 0, is accepted: it appends a purchase
\* row with an empty fornecedor_id and adds its quantity to the product.
CexC12 ==
    [][\A d \in CompraInputs :
          (/\ ComprasHandleSubmit(d.p, d.f, d.q, d.c)
           /\ d.f = NULL
           /\ Existe(d.p)
           /\ d.q >= 1
           /\ d.c >= 0)
             => /\ resCompra' = "sucesso"
                /\ Len(compras') = Len(compras) + 1
                /\ Ultima(compras').fornecedor_id = NULL
                /\ produtos'[d.p].quantidade = produtos[d.p].quantidade + d.q
      ]_vars

\* C13: a sale submitted again with the product, quantity and unit price of a sale
\* already committed, with stock for it, is committed as well: it appends a second
\* row, with an id no row has, and takes its quantity off the product once more.
JaVendida(r) ==
    \E i \in 1..Len(vendas) :
        /\ vendas[i].produto_id = r.produto_id
        /\ vendas[i].quantidade = r.quantidade
        /\ vendas[i].preco_unitario = r.preco_unitario
TeoC13 ==
    [][\A t \in Terms :
          (/\ FimDaVenda(t)
           /\ JaVendida(req[t])
           /\ Existe(req[t].produto_id)
           /\ req[t].quantidade >= 1
           /\ req[t].preco_unitario >= 0
           /\ produtos[req[t].produto_id].quantidade >= req[t].quantidade)
             => /\ res'[t] = "sucesso"
                /\ Len(vendas') = Len(vendas) + 1
                /\ SubSeq(vendas', 1, Len(vendas)) = vendas
                /\ \A i \in 1..Len(vendas) : vendas[i].id # Ultima(vendas').id
                /\ Ultima(vendas').produto_id = req[t].produto_id
                /\ Ultima(vendas').quantidade = req[t].quantidade
                /\ Ultima(vendas').preco_unitario = req[t].preco_unitario
                /\ produtos'[req[t].produto_id].quantidade =
                      produtos[req[t].produto_id].quantidade - req[t].quantidade
      ]_vars

\* Two sale rows with the same product, quantity and unit price, and different ids.
WitC13 ==
    \E i, j \in 1..Len(vendas) :
        /\ i # j
        /\ vendas[i].id # vendas[j].id
        /\ vendas[i].produto_id = vendas[j].produto_id
        /\ vendas[i].produto_id # NULL
        /\ vendas[i].quantidade = vendas[j].quantidade
        /\ vendas[i].preco_unitario = vendas[j].preco_unitario

\* C14: the event log is append-only: every purchase row and every sale row that is
\* in its table before a step is in it after the step, with the same fields, whatever
\* the step is.
CexC14 ==
    [][/\ \A i \in 1..Len(vendas) : \E j \in 1..Len(vendas') : vendas'[j] = vendas[i]
       /\ \A i \in 1..Len(compras) : \E j \in 1..Len(compras') : compras'[j] = compras[i]
      ]_vars

\* C15: the product form never changes the quantity of an existing product: after a
\* save of the form for product e, e holds the quantity it held before the save (the
\* one the ledger gave it), whatever quantity the form shows.
CexC15 ==
    [][\A d \in ProdutoInputs :
          (ProdutosHandleSubmit(d.e, d.q, d.c) /\ Existe(d.e))
             => produtos'[d.e].quantidade = produtos[d.e].quantidade
      ]_vars

\* C16: a step that commits a sale or a purchase for product P changes only P's
\* quantity: P's purchase cost, sale price, minimum quantity and expiry date are as
\* before, and so is every field of every other product (a purchase at unit cost c
\* leaves P's preco_compra alone).
TeoC16 ==
    [][(Len(vendas') > Len(vendas) \/ Len(compras') > Len(compras)) =>
          LET P == IF Len(vendas') > Len(vendas)
                   THEN Ultima(vendas').produto_id
                   ELSE Ultima(compras').produto_id
          IN  /\ ficha' = ficha
              /\ \A p \in ProdIds : p # P => produtos'[p] = produtos[p]
              /\ P # NULL =>
                    /\ produtos'[P].preco_compra = produtos[P].preco_compra
                    /\ produtos'[P].existe = produtos[P].existe
                    /\ produtos'[P].quantidade # produtos[P].quantidade
      ]_vars

\* A purchase was committed at a unit cost that is not its product's cost, and a sale
\* was committed too, with another product in the store.
WitC16 ==
    /\ \E i \in 1..Len(compras) :
          /\ compras[i].produto_id # NULL
          /\ compras[i].preco_unitario # produtos[compras[i].produto_id].preco_compra
    /\ \E i \in 1..Len(vendas) : vendas[i].produto_id # NULL
    /\ \A p \in ProdIds : produtos[p].existe /\ ficha[p] = FichaDe(p)

\* The alert inputs of product p as the classifiers read them.
Qtd(p) == produtos[p].quantidade
QtdMinima(p) == ficha[p].quantidade_minima
Validade(p) == ficha[p].validade
Hoje == CurrentDate(hoje)

\* C17: every product with quantidade <= quantidade_minima is classified low stock
\* (estoque_baixo by the view, Estoque Baixo by the badge), whatever its expiry date:
\* expired, expiring within 30 days or far in the future.
TeoC17 ==
    \A p \in ProdIds :
        (produtos[p].existe /\ Qtd(p) <= QtdMinima(p)) =>
            /\ statusAlerta[p] \in {"nenhum", "estoque_baixo"}
            /\ badge[p] \in {"nenhum", "Estoque Baixo"}

\* A product that is low on stock and already expired has been classified by both.
WitC17 ==
    \E p \in ProdIds :
        /\ produtos[p].existe /\ Qtd(p) <= QtdMinima(p) /\ Validade(p) < Hoje
        /\ statusAlerta[p] = "estoque_baixo"
        /\ badge[p] = "Estoque Baixo"

\* C18: every product with quantidade > quantidade_minima whose expiry date is
\* strictly before today is classified expired, and not expiring soon, by the view
\* and by the badge.
CexC18 ==
    \A p \in ProdIds :
        (produtos[p].existe /\ Qtd(p) > QtdMinima(p) /\ Validade(p) < Hoje) =>
            /\ statusAlerta[p] \in {"nenhum", "vencido"}
            /\ badge[p] \in {"nenhum", "Vencido"}

\* C19: every product with quantidade > quantidade_minima and expiry date >= today is
\* classified expiring soon exactly when its expiry date is <= today + 30 days (today
\* and today + 30 included) and ok exactly when it is later.
TeoC19 ==
    \A p \in ProdIds :
        (produtos[p].existe /\ Qtd(p) > QtdMinima(p) /\ Validade(p) >= Hoje) =>
            /\ statusAlerta[p] # "nenhum" =>
                  /\ statusAlerta[p] = "validade_proxima" <=> Validade(p) <= Hoje + JanelaDias
                  /\ statusAlerta[p] = "ok" <=> Validade(p) > Hoje + JanelaDias
            /\ badge[p] # "nenhum" =>
                  /\ badge[p] = "Vencendo" <=> Validade(p) <= Hoje + JanelaDias
                  /\ badge[p] = "sem_badge" <=> Validade(p) > Hoje + JanelaDias

\* At noon a product with ample stock that expires 31 days from today has been
\* classified by both.
WitC19 ==
    \E p \in ProdIds :
        /\ produtos[p].existe /\ Qtd(p) > QtdMinima(p)
        /\ Validade(p) = Hoje + JanelaDias + 1
        /\ hoje = 1
        /\ statusAlerta[p] = "ok"
        /\ badge[p] = "sem_badge"

\* The quantity changes of the ledger in the order of their recorded timestamps.
PorData ==
    [k \in 1..Len(diario) |->
        diario[CHOOSE i \in 1..Len(diario) :
                  Cardinality({j \in 1..Len(diario) : diario[j].data < diario[i].data}) = k - 1]]

RECURSIVE SomaDelta(_, _)
SomaDelta(s, n) == IF n = 0 THEN 0 ELSE s[n].delta + SomaDelta(s, n - 1)

\* The quantity product 1 had before the first change of the ledger.
EstoqueDePartida == produtos[1].quantidade - SomaDelta(diario, Len(diario))

\* C20: the purchase and sale events of a product ordered by their recorded timestamp
\* (data_compra / data_venda) are in the order in which their quantity changes were
\* applied, so replaying them in that order from the starting quantity never passes
\* through a negative quantity, whatever the interleaving of the sales and purchases.
CexC20 ==
    /\ \A i, j \in 1..Len(diario) : i < j => diario[i].data < diario[j].data
    /\ \A n \in 0..Len(diario) : EstoqueDePartida + SomaDelta(PorData, n) >= 0

\* C21: a sale or purchase submission that ends in an error (a constraint, an unknown
\* reference, a user_id that is not the caller's, an overflow of total or lucro) leaves
\* every product and both tables as they were: the decrement of the sale's BEFORE
\* INSERT trigger does not outlive a refused insert.
TeoC21 ==
    [][/\ \A t \in Terms :
             (FimDaVenda(t) /\ res'[t] # "sucesso") =>
                 /\ produtos' = produtos
                 /\ vendas' = vendas
                 /\ compras' = compras
       /\ ((\A t \in Terms : ~FimDaVenda(t)) /\ Len(compras') = Len(compras)) =>
                 /\ produtos' = produtos
                 /\ vendas' = vendas
                 /\ compras' = compras
      ]_vars

\* A sale was refused for its user_id and a purchase for the overflow of its total,
\* and the store holds what it held.
WitC21 ==
    /\ \E t \in Terms : res[t] = "erro_rls"
    /\ resCompra = "erro_overflow"
    /\ vendas = <<>>
    /\ compras = <<>>
    /\ produtos[1].quantidade >= 1

\* C22: a sale or purchase that references no existing product (an unknown product
\* id, or none) is refused and appends no event: every event in the log references a
\* product that was in the store when the event was committed, and changed that
\* product's quantity.
CexC22 ==
    [][/\ Len(vendas') > Len(vendas) =>
             /\ Existe(Ultima(vendas').produto_id)
             /\ produtos' # produtos
       /\ Len(compras') > Len(compras) =>
             /\ Existe(Ultima(compras').produto_id)
             /\ produtos' # produtos
      ]_vars

\* C23: when the operator clicks Cancelar before the submission has committed, also
\* while the insert is in flight, the submission changes no product and appends no
\* event.
CexC23 ==
    [][\A t \in Terms :
          (FimDaVenda(t) /\ cancelou[t]) =>
              /\ produtos' = produtos
              /\ vendas' = vendas
      ]_vars

\* C30: every submission of the sale or purchase form ends with exactly one toast (a
\* success toast or an error toast, never none, never both) and the loading flag
\* false, on every path: validation failure, the page's stock refusal, a store error,
\* success; a store error is never shown as a success.
TeoC30 ==
    /\ \A t \in Terms :
          /\ pc[t] = "transacao" => toasts[t] = SemToasts
          /\ (pc[t] = "ocioso" /\ res[t] # "nenhum") =>
                /\ toasts[t].sucesso + toasts[t].erro = 1
                /\ ~loading[t]
                /\ toasts[t].sucesso = 1 <=> res[t] = "sucesso"
    /\ resCompra # "nenhum" =>
          /\ toasts[PaginaCompras].sucesso + toasts[PaginaCompras].erro = 1
          /\ ~loading[PaginaCompras]
          /\ toasts[PaginaCompras].sucesso = 1 <=> resCompra = "sucesso"

\* The store has refused a sale of the page, which showed one error toast, and a
\* purchase has gone through with one success toast.
WitC30 ==
    /\ \E t \in Terms :
          /\ res[t] = "erro_estoque"
          /\ toasts[t] = [sucesso |-> 0, erro |-> 1]
          /\ ~loading[t]
    /\ resCompra = "sucesso"
    /\ toasts[PaginaCompras] = [sucesso |-> 1, erro |-> 0]

\* The products that have a sale among the rows of the month.
Vendidos == {topVendas[i].produto_id : i \in 1..Len(topVendas)} \ {NULL}

\* C24: the top-products list has at most 5 entries, one per distinct product, each
\* with the sum of the quantities of that product's sales of the month, in
\* non-increasing order of that sum, and no product left out of the list has sold more
\* than a product in it.
CexC24 ==
    topProdutos # <<>> =>
        /\ Len(topProdutos) <= TopN
        /\ \A i \in 1..Len(topProdutos) :
              /\ topProdutos[i].chave \in Vendidos
              /\ topProdutos[i].quantidade = QuantidadeDaChave(topVendas, topProdutos[i].chave)
        /\ \A i, j \in 1..Len(topProdutos) :
              /\ (i # j => topProdutos[i].chave # topProdutos[j].chave)
              /\ (i < j => topProdutos[i].quantidade >= topProdutos[j].quantidade)
        /\ \A p \in Vendidos :
              (\A i \in 1..Len(topProdutos) : topProdutos[i].chave # p) =>
                  \A i \in 1..Len(topProdutos) :
                      QuantidadeDaChave(topVendas, p) <= topProdutos[i].quantidade

\* C25: whenever the product dialog is opened with Novo Produto no product is being
\* edited and the form is blank, and a save of a dialog opened that way inserts a new
\* product and never updates an existing one, after any sequence of Editar, Cancelar,
\* close and save.
CexC25 ==
    [][/\ (~formAberto /\ formAberto' /\ viaNovo') =>
              /\ editingProduto' = NULL
              /\ formData' = FormEmBranco
       /\ (formAberto /\ viaNovo /\ produtos' # produtos) => criados' = criados + 1
      ]_vars

\* C26: a user who signed up as a seller never creates, edits or deletes a product,
\* whatever that user does (sign-up with chosen metadata, updates of the own profile
\* row, sales and purchases): whoever created, edited or deleted a product was made
\* admin by someone else.
CexC26 ==
    \A i \in 1..Len(autores) :
        autores[i].tabela = "produtos" => autores[i].uid \in promovidos

\* C27: the lucro stored on a committed sale is the one the store computes from the
\* row's unit price and quantity and the product's purchase cost, whatever lucro the
\* insert carried.
TeoC27 ==
    [][\A t \in Terms :
          (FimDaVenda(t) /\ res'[t] = "sucesso" /\ req[t].produto_id # NULL)
              => /\ Len(vendas') = Len(vendas) + 1
                 /\ Ultima(vendas').lucro =
                        (req[t].preco_unitario - produtos[req[t].produto_id].preco_compra)
                            * req[t].quantidade]_vars

\* A sale was committed whose insert carried a lucro, and another lucro is stored.
WitC27 ==
    \E t \in Terms :
        /\ res[t] = "sucesso"
        /\ pedido[t].lucro # NULL
        /\ vendas # <<>>
        /\ Ultima(vendas).user_id = sessao[t]
        /\ Ultima(vendas).lucro # pedido[t].lucro

\* The badge that stands for a status of the view.
BadgeDoStatus(s) ==
    CASE s = "estoque_baixo" -> "Estoque Baixo"
      [] s = "validade_proxima" -> "Vencendo"
      [] s = "ok" -> "sem_badge"
      [] OTHER -> "nenhum"

\* C28: for every product and every date the status of the view corresponds to the
\* badge of the products screen (estoque_baixo to Estoque Baixo, validade_proxima to
\* Vencendo, ok to no badge); no product is shown as Vencido while the view reports
\* another state for it.
CexC28 ==
    \A p \in ProdIds :
        (statusAlerta[p] # "nenhum" /\ badge[p] # "nenhum") =>
            badge[p] = BadgeDoStatus(statusAlerta[p])

\* The user signed in when row id of a table was inserted.
AutorDe(tabela, id) ==
    {autores[i].uid : i \in {j \in 1..Len(autores) :
                                 autores[j].tabela = tabela /\ autores[j].id = id}}

\* C29: every committed purchase or sale row carries as user_id the authenticated user
\* who performed the insert, and nobody else.
TeoC29 ==
    /\ \A i \in 1..Len(vendas) : AutorDe("vendas", vendas[i].id) = {vendas[i].user_id}
    /\ \A i \in 1..Len(compras) : AutorDe("compras", compras[i].id) = {compras[i].user_id}

\* A sale and a purchase were committed, and the last insert of terminal 1, attributed
\* to somebody else, was refused.
WitC29 ==
    /\ vendas # <<>>
    /\ compras # <<>>
    /\ res[1] = "erro_rls"
    /\ pedido[1].user_id \notin {NULL, sessao[1]}

====
